---------------------------- MODULE Spec2Model ----------------------------
(***************************************************************************)
(* Model of basket/news/backends/braze.py: the transport client            *)
(* (BrazeInterface) and the adapter (Braze) built on it.                    *)
(*                                                                         *)
(* Python values are represented as follows.                               *)
(*   - a dict is a function from its keys (strings) to its values;         *)
(*   - a list is a sequence;                                               *)
(*   - None in a position that otherwise holds a string is None;           *)
(*   - None in a position that otherwise holds a dict is NoDict;           *)
(*   - a URL is a sequence of one-character strings.                       *)
(***************************************************************************)
EXTENDS Integers, Sequences, FiniteSets, TLC

VARIABLES
    base_url,   \* BrazeInterface.__init__ argument
    api_key,    \* self.api_key
    client,     \* "new" before __init__, then "ok" or "ValueError"
    api_url,    \* self.api_url
    active,     \* self.active
    pc,         \* "idle" between calls, a position inside an adapter call, "done" at its end
    op,         \* the top-level operation in progress or last finished
    args,       \* its arguments
    http,       \* HTTP exchanges (request and response) of that operation, in order
    outcome,    \* how the last finished operation ended
    user_data,  \* Braze.get local: user_response["users"][0]
    data        \* Braze.delete local: the record returned by get

vars == <<base_url, api_key, client, api_url, active, pc, op, args, http,
          outcome, user_data, data>>

---------------------------------------------------------------------------
(* Bounds of the model *)

\* Longest base URL, in characters, tried by the constructor
MaxUrlLen == 5

\* Longest list of subscription groups handed to from_vendor
MaxGroups == 2

---------------------------------------------------------------------------
(* Python values *)

None == "None"
NoDict == [None |-> TRUE]

\* dict.get(k) and dict.get(k, default) for string-valued keys
DictGet(d, k) == IF k \in DOMAIN d THEN d[k] ELSE None
DictGetOr(d, k, default) == IF k \in DOMAIN d THEN d[k] ELSE default

\* truth value of a string-or-None
Truthy(v) == v # None /\ v # ""

\* a or b
Or(a, b) == IF Truthy(a) THEN a ELSE b

\* a value whose Python type the code inspects carries it: a list of strings,
\* and a dict given by its keys and their values in insertion order
PyList(items) == [type |-> "list", items |-> items]
PyDict(keys, values) == [type |-> "dict", keys |-> keys, values |-> values]

\* isinstance(d.get(k), dict)
IsInstanceDict(d, k) == k \in DOMAIN d /\ d[k].type = "dict"

\* d or {} for a dict-or-None
OrEmpty(d) == IF d = NoDict THEN <<>> ELSE d

\* bool(d.get(k)) for a key that holds a bool
Flag(d, k) == k \in DOMAIN d /\ d[k]

\* How a call ends
ReturnNone == [kind |-> "none"]
Return(v) == [kind |-> "value", value |-> v]
Raise(e, m) == [kind |-> "raise", exc |-> e, message |-> m]
NoMessage == ""

---------------------------------------------------------------------------
(* urllib.parse.urlparse / urlunparse, as BrazeInterface.__init__ uses them *)

Letters == {"h"}
Digits == {"1"}
UrlChars == Letters \cup Digits \cup {":", "/", "?"}
scheme_chars == Letters \cup Digits \cup {"+", "-", "."}

RECURSIVE FindFrom(_, _, _)
\* str.find(chars, start): the first index >= start holding one of chars, 0 if none
FindFrom(u, chars, start) ==
    IF start > Len(u) THEN 0
    ELSE IF u[start] \in chars THEN start
    ELSE FindFrom(u, chars, start + 1)

\* url[from:to], 1-based and inclusive; empty when from > to
Slice(u, from, to) == [i \in 1..(IF to >= from THEN to - from + 1 ELSE 0) |-> u[from + i - 1]]

RECURSIVE AllIn(_, _)
\* the for/else loop of urlsplit: no character of s is outside chars
AllIn(s, chars) ==
    IF s = <<>> THEN TRUE
    ELSE IF Head(s) \notin chars THEN FALSE
    ELSE AllIn(Tail(s), chars)

\* urlsplit's scheme step: [scheme, rest]
SplitScheme(u) ==
    LET i == FindFrom(u, {":"}, 1) IN
    IF i > 1 /\ u[1] \in Letters /\ AllIn(Slice(u, 1, i - 1), scheme_chars)
    THEN [scheme |-> Slice(u, 1, i - 1), rest |-> Slice(u, i + 1, Len(u))]
    ELSE [scheme |-> <<>>, rest |-> u]

\* urlsplit's netloc step (_splitnetloc): the text between "//" and the next "/", "?" or "#"
SplitNetloc(rest) ==
    IF Len(rest) >= 2 /\ rest[1] = "/" /\ rest[2] = "/"
    THEN LET d == FindFrom(rest, {"/", "?", "#"}, 3)
             delim == IF d = 0 THEN Len(rest) + 1 ELSE d
         IN  Slice(rest, 3, delim - 1)
    ELSE <<>>

urlparse(u) ==
    LET s == SplitScheme(u) IN
    [scheme |-> s.scheme, netloc |-> SplitNetloc(s.rest)]

\* urlunparse((scheme, netloc, "", "", "", ""))
urlunparse(scheme, netloc) == scheme \o <<":", "/", "/">> \o netloc

\* urljoin(self.api_url, endpoint.value): the base has no path, the endpoint is absolute
urljoin(base, path) == [base |-> base, path |-> path]

---------------------------------------------------------------------------
(* BrazeInterface.__init__ *)

\* the guard that raises ValueError("Invalid base_url")
InvalidBaseUrl_both(urlbits) == urlbits.scheme = <<>> /\ urlbits.netloc = <<>>
InvalidBaseUrl(urlbits) == urlbits.scheme = <<>> \/ urlbits.netloc = <<>>

\* bool(self.api_key)
IsActive(key) == key # ""

Construct ==
    /\ client = "new"
    /\ LET urlbits == urlparse(base_url) IN
       IF InvalidBaseUrl(urlbits)
       THEN /\ client' = "ValueError"
            /\ UNCHANGED <<api_url, active>>
       ELSE /\ client' = "ok"
            /\ api_url' = urlunparse(urlbits.scheme, urlbits.netloc)
            /\ active' = IsActive(api_key)
    /\ UNCHANGED <<base_url, api_key, pc, op, args, http, outcome, user_data, data>>

---------------------------------------------------------------------------
(* BrazeEndpoint *)

CAMPAIGNS_TRIGGER_SEND == "/campaigns/trigger/send"
USERS_EXPORT_IDS == "/users/export/ids"
USERS_TRACK == "/users/track"
USERS_DELETE == "/users/delete"
SUBSCRIPTION_USER_STATUS == "/subscription/user/status"

---------------------------------------------------------------------------
(* The vendor's answers: a status and a body text; response.json() parses the text *)

Statuses == {101, 200, 304, 400, 401, 403, 404, 418, 429, 500, 599}

\* Vendor user records as /users/export/ids returns them
UserFull ==
    [email |-> "a@x.org", external_id |-> "X1", braze_id |-> "B1",
     first_name |-> "Test", last_name |-> "User", country |-> "US",
     language |-> "en", email_subscribe |-> "opted_in",
     custom_attributes |->
        [user_attributes_v1 |->
            <<[mailing_country |-> "us", email_lang |-> "en",
               created_at |-> "2022-01-01", updated_at |-> "2022-02-01",
               basket_token |-> "T1", fxa_first_service |-> "svc",
               fxa_lang |-> "en", fxa_primary_email |-> "f@x.org",
               fxa_created_at |-> "2022-01-02", has_fxa |-> TRUE]>>]]
UserMinimal == [email |-> "b@x.org", external_id |-> "X2", braze_id |-> "B2"]
UserNoFxa ==
    [email |-> "b@x.org", external_id |-> "X3", braze_id |-> "B3",
     email_subscribe |-> "unsubscribed",
     custom_attributes |->
        [user_attributes_v1 |->
            <<[mailing_country |-> "de", email_lang |-> "de",
               fxa_created_at |-> "2022-01-02", has_fxa |-> FALSE]>>]]
UserIdOnly == [external_id |-> "X1"]
UserAliasOnly == [email |-> "a@x.org", braze_id |-> "B4"]

\* Subscription groups as /subscription/user/status returns them
GroupFoo == "234c9b4a-1785-4cd5-b839-5dbc134982eb"
GroupBar == "78fe6671-9f94-48bd-aaf3-7e873536c3e6"
GroupUnknown == "00000000-0000-4000-8000-000000000000"
GroupsTwo == <<[id |-> GroupFoo, status |-> "Subscribed"],
               [id |-> GroupBar, status |-> "Unsubscribed"]>>
GroupsUnmapped == <<[id |-> GroupUnknown, status |-> "Subscribed"],
                    [id |-> GroupBar, status |-> "Subscribed"],
                    [id |-> GroupFoo, status |-> "Subscribed"]>>

NotJson == [not_json |-> TRUE]

\* response.json(): the parse of each body text the vendor sends in this model
json(text) ==
    CASE text = "{users:[]}" -> [users |-> <<>>]
      [] text = "{users:[full]}" -> [users |-> <<UserFull>>]
      [] text = "{users:[minimal,full]}" -> [users |-> <<UserMinimal, UserFull>>]
      [] text = "{users:[nofxa]}" -> [users |-> <<UserNoFxa>>]
      [] text = "{users:[idonly]}" -> [users |-> <<UserIdOnly>>]
      [] text = "{users:[aliasonly]}" -> [users |-> <<UserAliasOnly>>]
      [] text = "{users:[{groups:[]}]}" -> [users |-> <<[subscription_groups |-> <<>>]>>]
      [] text = "{users:[{groups:two}]}" -> [users |-> <<[subscription_groups |-> GroupsTwo]>>]
      [] text = "{users:[{groups:unmapped}]}" -> [users |-> <<[subscription_groups |-> GroupsUnmapped]>>]
      [] text = "{users:[{}]}" -> [users |-> <<[email |-> "a@x.org"]>>]
      [] text = "{message:success}" -> [message |-> "success"]
      [] OTHER -> NotJson

BodyTexts(endpoint) ==
    CASE endpoint = USERS_EXPORT_IDS ->
            {"{users:[]}", "{users:[full]}", "{users:[minimal,full]}", "{users:[nofxa]}",
             "{users:[idonly]}", "{users:[aliasonly]}", "{message:success}", "<html>"}
      [] endpoint = SUBSCRIPTION_USER_STATUS ->
            {"{users:[]}", "{users:[{groups:[]}]}", "{users:[{groups:two}]}",
             "{users:[{groups:unmapped}]}", "{users:[{}]}", "{message:success}", "<html>"}
      [] OTHER -> {"{message:success}", "<html>", ""}

Responses(endpoint) == [status : Statuses, text : BodyTexts(endpoint)]

---------------------------------------------------------------------------
(* BrazeInterface._request *)

\* response.raise_for_status(): HTTPError for a 4xx or 5xx status
raise_for_status_4xx(status) == 400 <= status /\ status < 500
raise_for_status(status) == 400 <= status /\ status < 600

\* the except branch: the exception class for an HTTPError's status
ClassifyStatus_gt500(status_code) ==
    IF status_code = 400 THEN "BrazeBadRequestError"
    ELSE IF status_code = 401 THEN "BrazeUnauthorizedError"
    ELSE IF status_code = 403 THEN "BrazeForbiddenError"
    ELSE IF status_code = 404 THEN "BrazeNotFoundError"
    ELSE IF status_code = 429 THEN "BrazeRateLimitError"
    ELSE IF status_code > 500 /\ status_code <= 599 THEN "BrazeInternalServerError"
    ELSE "BrazeClientError"
ClassifyStatus(status_code) ==
    IF status_code = 400 THEN "BrazeBadRequestError"
    ELSE IF status_code = 401 THEN "BrazeUnauthorizedError"
    ELSE IF status_code = 403 THEN "BrazeForbiddenError"
    ELSE IF status_code = 404 THEN "BrazeNotFoundError"
    ELSE IF status_code = 429 THEN "BrazeRateLimitError"
    ELSE IF status_code >= 500 /\ status_code <= 599 THEN "BrazeInternalServerError"
    ELSE "BrazeClientError"

Headers(key) ==
    ("Authorization" :> <<"Bearer", key>>) @@ ("Content-Type" :> "application/json")

\* the early return of an inactive client
Inactive_never(self) == FALSE
Inactive(self) == ~self.active

\* One call of _request, given the vendor's answer: the HTTP exchanges it makes
\* (none or one) and how it ends
_request_retry(self, endpoint, body, method, params, response) ==
    IF Inactive(self)
    THEN [http |-> <<>>, out |-> ReturnNone]
    ELSE LET req == [method |-> IF method = "GET" THEN "GET" ELSE "POST",
                     url |-> urljoin(self.api_url, endpoint),
                     headers |-> Headers(self.api_key),
                     params |-> IF method = "GET" THEN params ELSE NoDict,
                     data |-> body]
             exchange == [request |-> req, response |-> response]
             out == IF raise_for_status(response.status)
                    THEN Raise(ClassifyStatus(response.status), response.text)
                    ELSE IF json(response.text) = NotJson
                    THEN Raise("JSONDecodeError", NoMessage)
                    ELSE Return(json(response.text))
         IN  [http |-> IF response.status = 429 \/ response.status >= 500
                       THEN <<exchange, exchange>> ELSE <<exchange>>,
              out |-> out]
_request(self, endpoint, body, method, params, response) ==
    IF Inactive(self)
    THEN [http |-> <<>>, out |-> ReturnNone]
    ELSE LET req == [method |-> IF method = "GET" THEN "GET" ELSE "POST",
                     url |-> urljoin(self.api_url, endpoint),
                     headers |-> Headers(self.api_key),
                     params |-> IF method = "GET" THEN params ELSE NoDict,
                     data |-> body]
             out == IF raise_for_status(response.status)
                    THEN Raise(ClassifyStatus(response.status), response.text)
                    ELSE IF json(response.text) = NotJson
                    THEN Raise("JSONDecodeError", NoMessage)
                    ELSE Return(json(response.text))
         IN  [http |-> <<[request |-> req, response |-> response]>>, out |-> out]

---------------------------------------------------------------------------
(* BrazeInterface: one operation per vendor endpoint *)

EmailAlias(email) == [alias_name |-> email, alias_label |-> "email"]

\* user_data and user_data.pop(key, None): falsy for None and for {}
Pop_ignored(ud, key) == None
Pop(ud, key) == IF ud = NoDict \/ ud = <<>> THEN None ELSE DictGet(ud, key)

track_user(self, email, event, ud, now, response) ==
    LET email_id == Pop(ud, "email_id")
        basket_token == Pop(ud, "basket_token")
        attributes ==
            IF Truthy(email_id)
            THEN [email |-> email, external_id |-> email_id, basket_token |-> basket_token]
            ELSE [email |-> email, _update_existing_only |-> FALSE,
                  user_alias |-> EmailAlias(email)]
                 @@ (IF Truthy(basket_token)
                     THEN [basket_token |-> basket_token] ELSE <<>>)
        events ==
            [name |-> event, time |-> now]
            @@ (IF Truthy(email_id)
                THEN [external_id |-> email_id]
                ELSE [user_alias |-> EmailAlias(email)])
        body == [attributes |-> <<attributes>>]
                @@ (IF Truthy(event) THEN [events |-> <<events>>] ELSE <<>>)
    IN  _request(self, USERS_TRACK, body, "POST", NoDict, response)

\* fields_to_export is a list; None and [] are both falsy and are both <<>> here
export_users(self, email, fields_to_export, external_id, response) ==
    LET body == [user_aliases |-> <<EmailAlias(email)>>, email_address |-> email]
                @@ (IF Truthy(external_id) THEN [external_ids |-> <<external_id>>] ELSE <<>>)
                @@ (IF fields_to_export # <<>>
                    THEN [fields_to_export |-> fields_to_export] ELSE <<>>)
    IN  _request(self, USERS_EXPORT_IDS, body, "POST", NoDict, response)

delete_user(self, email, response) ==
    LET body == [email_addresses |->
                    <<[email |-> email, prioritization |-> <<"most_recently_updated">>]>>]
    IN  _request(self, USERS_DELETE, body, "POST", NoDict, response)

send_campaign(self, email, campaign_id, response) ==
    LET body == [campaign_id |-> campaign_id, broadcast |-> FALSE,
                 recipients |-> <<[user_alias |-> [alias_label |-> "email",
                                                   alias_name |-> email]]>>]
    IN  _request(self, CAMPAIGNS_TRIGGER_SEND, body, "POST", NoDict, response)

get_user_subscriptions(self, external_id, email, response) ==
    LET params == [external_id |-> external_id, email |-> email]
    IN  _request(self, SUBSCRIPTION_USER_STATUS, NoDict, "GET", params, response)

save_user(self, braze_user_data, response) ==
    _request(self, USERS_TRACK, braze_user_data, "POST", NoDict, response)

---------------------------------------------------------------------------
(* basket.news.newsletters: the vendor id -> slug lookup *)

vendor_id_to_slug(vendor_id) ==
    CASE vendor_id = GroupFoo -> "foo-news"
      [] vendor_id = GroupBar -> "bar-news"
      [] OTHER -> None

---------------------------------------------------------------------------
(* Braze.from_vendor *)

IsSubscribed_not_unsubscribed(subscription) == subscription.status # "Unsubscribed"
IsSubscribed(subscription) == subscription.status = "Subscribed"

\* braze_user_data.get("email_subscribe") == state
EmailSubscribeIs_or_missing(braze_user_data, state) ==
    DictGetOr(braze_user_data, "email_subscribe", state) = state
EmailSubscribeIs(braze_user_data, state) ==
    DictGet(braze_user_data, "email_subscribe") = state

\* braze_user_data["email"], ["external_id"], ["braze_id"] raise KeyError when missing
FromVendorKeyError(braze_user_data) ==
    ~({"email", "external_id", "braze_id"} \subseteq DOMAIN braze_user_data)

from_vendor(braze_user_data, subscription_groups) ==
    LET user_attributes ==
            DictGetOr(DictGetOr(braze_user_data, "custom_attributes", <<>>),
                      "user_attributes_v1", <<<<>>>>)[1]
        subscribed == SelectSeq(subscription_groups, IsSubscribed)
        subscription_ids == [i \in 1..Len(subscribed) |-> subscribed[i].id]
        slugs == [i \in 1..Len(subscription_ids) |-> vendor_id_to_slug(subscription_ids[i])]
        newsletter_slugs == SelectSeq(slugs, Truthy)
        has_fxa == "has_fxa" \in DOMAIN user_attributes /\ user_attributes["has_fxa"]
    IN  [email |-> braze_user_data["email"],
         email_id |-> braze_user_data["external_id"],
         id |-> braze_user_data["braze_id"],
         first_name |-> DictGet(braze_user_data, "first_name"),
         last_name |-> DictGet(braze_user_data, "last_name"),
         country |-> Or(DictGet(braze_user_data, "country"),
                        DictGet(user_attributes, "mailing_country")),
         lang |-> Or(DictGet(braze_user_data, "language"),
                     DictGetOr(user_attributes, "email_lang", "en")),
         newsletters |-> PyList(newsletter_slugs),
         created_date |-> DictGet(user_attributes, "created_at"),
         last_modified_date |-> DictGet(user_attributes, "updated_at"),
         optin |-> EmailSubscribeIs(braze_user_data, "opted_in"),
         optout |-> EmailSubscribeIs(braze_user_data, "unsubscribed"),
         token |-> DictGet(user_attributes, "basket_token"),
         fxa_service |-> DictGet(user_attributes, "fxa_first_service"),
         fxa_lang |-> DictGet(user_attributes, "fxa_lang"),
         fxa_primary_email |-> DictGet(user_attributes, "fxa_primary_email"),
         fxa_create_date |-> IF has_fxa THEN DictGet(user_attributes, "fxa_created_at")
                             ELSE None]

---------------------------------------------------------------------------
(* basket.news.backends.ctms, basket.news.newsletters, basket.base.utils: *)
(* the helpers to_vendor consumes                                         *)

\* country normalisation: the lower-cased code, None for no country
process_country(raw) ==
    CASE raw = "US" -> "us"
      [] raw = "CA" -> "ca"
      [] raw = "DE" -> "de"
      [] OTHER -> raw

\* language normalisation: a supported language code, "en" for none or an
\* unsupported one
process_lang(raw) ==
    CASE raw = "en" -> "en"
      [] raw = "de" -> "de"
      [] raw = "fr" -> "fr"
      [] OTHER -> "en"

\* the slug -> vendor id lookup; "legacy-news" is registered with an id that is
\* no UUID
slug_to_vendor_id(slug) ==
    CASE slug = "foo-news" -> GroupFoo
      [] slug = "bar-news" -> GroupBar
      [] slug = "legacy-news" -> "legacy-17"
      [] OTHER -> None

is_valid_uuid(value) == value \in {GroupFoo, GroupBar, GroupUnknown}

---------------------------------------------------------------------------
(* Braze.to_vendor *)

\* update_data.get(...) on an update_data of None
NoUpdateData(update_data) == update_data = NoDict

\* "opted_in" if optin else "unsubscribed" if optout else "subscribed"
email_subscribe_optout_first(updated_user_data) ==
    IF Flag(updated_user_data, "optout") THEN "unsubscribed"
    ELSE IF Flag(updated_user_data, "optin") THEN "opted_in"
    ELSE "subscribed"
email_subscribe(updated_user_data) ==
    IF Flag(updated_user_data, "optin") THEN "opted_in"
    ELSE IF Flag(updated_user_data, "optout") THEN "unsubscribed"
    ELSE "subscribed"

HasValidUuid_any(group) == TRUE
HasValidUuid(group) == is_valid_uuid(group.subscription_group_id)

\* the loop over update_data["newsletters"].items()
SubscriptionGroups(newsletters) ==
    LET groups == [i \in 1..Len(newsletters.keys) |->
                      [subscription_group_id |-> slug_to_vendor_id(newsletters.keys[i]),
                       subscription_state |-> IF newsletters.values[i] THEN "subscribed"
                                              ELSE "unsubscribed"]]
    IN  SelectSeq(groups, HasValidUuid)

\* the billable data points: each is sent only when it differs from the value
\* the existing record holds under the key the code reads
Billable(existing_user_data, updated_user_data, country, language) ==
    LET first_name == DictGet(updated_user_data, "first_name")
        last_name == DictGet(updated_user_data, "last_name")
    IN  (IF country # DictGet(existing_user_data, "country")
         THEN [country |-> country] ELSE <<>>)
        @@ (IF language # DictGet(existing_user_data, "language")
            THEN [language |-> language] ELSE <<>>)
        @@ (IF first_name # DictGet(existing_user_data, "first_name")
            THEN [first_name |-> first_name] ELSE <<>>)
        @@ (IF last_name # DictGet(existing_user_data, "last_name")
            THEN [last_name |-> last_name] ELSE <<>>)

Time(t) == "$time" :> t

\* events is a list; None and [] are both falsy and are both <<>> here
to_vendor(basket_user_data, update_data, custom_attributes, events, now) ==
    LET existing_user_data == OrEmpty(basket_user_data)
        updated_user_data == OrEmpty(update_data) @@ existing_user_data
        country == process_country(DictGet(updated_user_data, "country"))
        language == process_lang(DictGet(updated_user_data, "lang"))
        subscription_groups ==
            IF IsInstanceDict(update_data, "newsletters")
            THEN SubscriptionGroups(update_data["newsletters"]) ELSE <<>>
        user_attributes ==
            [external_id |-> DictGet(updated_user_data, "email_id"),
             email |-> DictGet(updated_user_data, "email"),
             update_timestamp |-> now,
             _update_existing_only |-> TRUE,
             email_subscribe |-> email_subscribe(updated_user_data),
             subscription_groups |-> subscription_groups,
             user_attributes_v1 |->
                <<[basket_token |-> DictGet(updated_user_data, "token"),
                   created_at |-> Time(DictGetOr(updated_user_data, "created_date", now)),
                   email_lang |-> language,
                   mailing_country |-> country,
                   updated_at |-> Time(now),
                   has_fxa |-> Truthy(DictGet(updated_user_data, "fxa_create_date")),
                   fxa_created_at |-> DictGet(updated_user_data, "fxa_create_date"),
                   fxa_first_service |-> DictGet(updated_user_data, "fxa_service"),
                   fxa_lang |-> DictGet(updated_user_data, "fxa_lang"),
                   fxa_primary_email |-> DictGet(updated_user_data, "fxa_primary_email")]>>]
        attributes == OrEmpty(custom_attributes)
                      @@ Billable(existing_user_data, updated_user_data, country, language)
                      @@ user_attributes
        braze_data == [attributes |-> <<attributes>>]
                      @@ (IF events # <<>> THEN [events |-> events] ELSE <<>>)
    IN  IF NoUpdateData(update_data) THEN Raise("AttributeError", NoMessage)
        ELSE Return(braze_data)

---------------------------------------------------------------------------
(* Braze.get, in its two vendor calls *)

FieldsToExport ==
    <<"braze_id", "country", "created_at", "custom_attributes", "email",
      "email_subscribe", "external_id", "first_name", "language", "last_name">>

\* get falls off its end when the export holds no user
NoUserResult_raise == Raise("BrazeUserNotFoundByEmailError", NoMessage)
NoUserResult == ReturnNone

\* the external id get passes to get_user_subscriptions
SubscriptionExternalId_braze_id(ud) == DictGet(ud, "braze_id")
SubscriptionExternalId(ud) == ud["external_id"]

Done(h, out) == [http |-> h, next |-> "done", out |-> out, user_data |-> NoDict]
Continue(h, ud) == [http |-> h, next |-> "continue", out |-> [kind |-> "pending"], user_data |-> ud]

\* export_users(...) up to the evaluation of user_data["external_id"]
get_export(self, email, token, response) ==
    LET r == export_users(self, email, FieldsToExport, token, response) IN
    IF r.out.kind = "raise" THEN Done(r.http, r.out)
    ELSE IF r.out.kind = "none" THEN Done(r.http, Raise("TypeError", NoMessage))
    ELSE LET user_response == r.out.value IN
         IF "users" \notin DOMAIN user_response
         THEN Done(r.http, Raise("KeyError", NoMessage))
         ELSE IF user_response["users"] = <<>> THEN Done(r.http, NoUserResult)
         ELSE IF "external_id" \notin DOMAIN user_response["users"][1]
         THEN Done(r.http, Raise("KeyError", NoMessage))
         ELSE Continue(r.http, user_response["users"][1])

\* get_user_subscriptions(...) and from_vendor
get_subscriptions(self, ud, email, response) ==
    LET r == get_user_subscriptions(self, SubscriptionExternalId(ud), email, response) IN
    IF r.out.kind = "raise" THEN Done(r.http, r.out)
    ELSE IF r.out.kind = "none" THEN Done(r.http, Raise("AttributeError", NoMessage))
    ELSE LET users == DictGetOr(r.out.value, "users", <<<<>>>>) IN
         IF users = <<>> THEN Done(r.http, Raise("IndexError", NoMessage))
         ELSE LET subscriptions == DictGetOr(users[1], "subscription_groups", <<>>) IN
              IF FromVendorKeyError(ud) THEN Done(r.http, Raise("KeyError", NoMessage))
              ELSE Done(r.http, Return(from_vendor(ud, subscriptions)))

---------------------------------------------------------------------------
(* Braze.delete *)

\* if not data
NotFound_never(d) == FALSE
NotFound(d) == d = NoDict

\* return [data]
DeleteResult(d) == <<d>>

\* delete, once its get has ended with getout: raise, or go on to delete_user with data
delete_after_get(getout) ==
    IF getout.kind = "raise" THEN [next |-> "done", out |-> getout, data |-> NoDict]
    ELSE LET d == IF getout.kind = "none" THEN NoDict ELSE getout.value IN
         IF NotFound(d)
         THEN [next |-> "done", out |-> Raise("BrazeUserNotFoundByEmailError", NoMessage),
               data |-> NoDict]
         ELSE [next |-> "continue", out |-> [kind |-> "pending"], data |-> d]

\* self.interface.delete_user(email); return [data]
delete_delete_user_skipped(self, d, email, response) == Done(<<>>, Return(DeleteResult(d)))
delete_delete_user(self, d, email, response) ==
    LET r == delete_user(self, email, response) IN
    IF r.out.kind = "raise" THEN Done(r.http, r.out)
    ELSE Done(r.http, Return(DeleteResult(d)))

---------------------------------------------------------------------------
(* Braze.update, update_by_fxa_id, update_by_token *)

NotImplemented_noop == ReturnNone
NotImplemented == Raise("NotImplementedError", NoMessage)

---------------------------------------------------------------------------
(* Braze.add *)

\* if not data.get("email_id")
LacksEmailId(d) == ~Truthy(DictGet(d, "email_id"))

\* data.email: data is a dict, which has no attribute `email`
AttributeEmail(d) == Raise("AttributeError", NoMessage)

\* add returns nothing; an exception of to_vendor or of save_user passes through
add(self, d, now, response) ==
    LET custom_attributes == [_update_existing_only |-> FALSE]
        braze_user_data == to_vendor(NoDict, d, custom_attributes, <<>>, now)
    IN  IF LacksEmailId(d) THEN [http |-> <<>>, out |-> AttributeEmail(d)]
        ELSE IF braze_user_data.kind = "raise" THEN [http |-> <<>>, out |-> braze_user_data]
        ELSE LET r == save_user(self, braze_user_data.value, response) IN
             [http |-> r.http, out |-> IF r.out.kind = "raise" THEN r.out ELSE ReturnNone]

---------------------------------------------------------------------------
(* Inputs *)

RECURSIVE SeqsUpTo(_, _)
\* every sequence over S of length at most n
SeqsUpTo(S, n) ==
    IF n = 0 THEN {<<>>}
    ELSE LET shorter == SeqsUpTo(S, n - 1) IN
         shorter \cup {Append(s, c) : s \in {t \in shorter : Len(t) = n - 1}, c \in S}

Emails == {"a@x.org", "b@x.org"}
Events == {None, "welcome"}
Times == {"2026-01-01T00:00:00", "2026-01-02T00:00:00"}
UserDatas ==
    {NoDict, <<>>, [email_id |-> "X1"], [email_id |-> "X1", basket_token |-> "T1"],
     [basket_token |-> "T1"], [email_id |-> ""]}
ExternalIds == {None, "X1"}
Tokens == {None, "T1"}
FxaIds == {None, "F1"}
CampaignIds == {"c1"}
Payloads == {[attributes |-> <<[email |-> "a@x.org", external_id |-> "X1"]>>]}
LocalRecords == {NoDict, from_vendor(UserFull, GroupsTwo)}
Updates == {NoDict, [country |-> "CA"]}
SampleUrls == {<<"h", ":", "/", "/", "h">>, <<"h">>}

\* records handed to add: with and without an email_id
NewUsers ==
    {[email |-> "a@x.org", email_id |-> "X1", token |-> "T1", country |-> "US"],
     [email |-> "a@x.org", email_id |-> "X1", newsletters |-> PyDict(<<"foo-news">>, <<TRUE>>)],
     [email |-> "b@x.org", token |-> "T1"],
     [email |-> "b@x.org", email_id |-> ""]}

\* vendor user records: every email_subscribe, with and without a top-level
\* language and a nested email_lang
EmailSubscribes == {None, "opted_in", "unsubscribed", "subscribed", "pending"}
VendorUser(subscribe, language, email_lang) ==
    [email |-> "a@x.org", external_id |-> "X1", braze_id |-> "B1"]
    @@ (IF subscribe # None THEN [email_subscribe |-> subscribe] ELSE <<>>)
    @@ (IF language # None THEN [language |-> language] ELSE <<>>)
    @@ (IF email_lang # "absent"
        THEN [custom_attributes |-> [user_attributes_v1 |-> <<[email_lang |-> email_lang]>>]]
        ELSE <<>>)
VendorUsers ==
    {UserFull, UserMinimal, UserNoFxa}
    \cup {VendorUser(subscribe, language, email_lang) :
            subscribe \in EmailSubscribes, language \in {None, "fr"},
            email_lang \in {"absent", None, "de"}}

\* subscription groups: every list of at most MaxGroups groups
GroupIds == {GroupFoo, GroupBar, GroupUnknown}
GroupStatuses == {"Subscribed", "Unsubscribed", "Pending"}
GroupLists == SeqsUpTo([id : GroupIds, status : GroupStatuses], MaxGroups)

\* local records, as existing record and as update
BasketUser == from_vendor(UserFull, GroupsTwo)
ExistingRecords ==
    {NoDict, <<>>, BasketUser, [BasketUser EXCEPT !.country = "us"],
     from_vendor(UserNoFxa, <<>>), from_vendor(UserMinimal, GroupsTwo),
     [email |-> "a@x.org", optin |-> TRUE, optout |-> TRUE], [country |-> "US"],
     [email |-> "a@x.org", newsletters |-> PyDict(<<"bar-news">>, <<TRUE>>)]}
UpdateRecords ==
    {NoDict, <<>>, [country |-> "US"], [country |-> "CA"], [country |-> "us"],
     [optin |-> FALSE], [optin |-> TRUE, optout |-> TRUE], [optout |-> TRUE],
     [first_name |-> "Foo", lang |-> "de"], [first_name |-> "Test", last_name |-> "User"],
     [newsletters |-> PyDict(<<"bar-news", "foo-news">>, <<TRUE, FALSE>>),
      first_name |-> "Foo", country |-> "CA", optin |-> FALSE],
     [newsletters |-> PyDict(<<"legacy-news", "nope-news", "foo-news">>, <<TRUE, TRUE, TRUE>>)],
     [newsletters |-> PyList(<<"foo-news">>)],
     [created_date |-> None]}
CustomAttributes == {NoDict, [_update_existing_only |-> FALSE]}
EventLists == {<<>>, <<[name |-> "welcome", external_id |-> "X1"]>>}

\* the calls of the mapping functions
FromVendorCalls ==
    {[fn |-> "from_vendor", braze_user_data |-> r, subscription_groups |-> g] :
        r \in VendorUsers, g \in {<<>>, GroupsTwo, GroupsUnmapped}}
    \cup {[fn |-> "from_vendor", braze_user_data |-> UserFull, subscription_groups |-> g] :
            g \in GroupLists}
ToVendorCalls ==
    {[fn |-> "to_vendor", basket_user_data |-> e, update_data |-> u,
      custom_attributes |-> c, events |-> ev, now |-> now] :
        e \in ExistingRecords, u \in UpdateRecords, c \in CustomAttributes,
        ev \in EventLists, now \in Times}
RoundTripCalls ==
    {[fn |-> "round_trip", braze_user_data |-> r, subscription_groups |-> g, now |-> now] :
        r \in VendorUsers, g \in {<<>>, GroupsTwo, GroupsUnmapped}, now \in Times}

---------------------------------------------------------------------------
(* Actions: one per operation; an adapter call with several vendor calls *)
(* takes one step per vendor call                                        *)

Self == [api_url |-> api_url, api_key |-> api_key, active |-> active]

Config == <<base_url, api_key, client, api_url, active>>

Ready == client = "ok" /\ pc = "idle"

\* a top-level call ends
Finish(o, a, h, out) ==
    /\ op' = o
    /\ args' = a
    /\ http' = h
    /\ outcome' = out
    /\ pc' = "done"
    /\ user_data' = NoDict
    /\ data' = NoDict
    /\ UNCHANGED Config

\* the caller takes the result (or the exception); the next call starts afresh
CallerResumes ==
    /\ client = "ok"
    /\ pc = "done"
    /\ pc' = "idle"
    /\ op' = "none"
    /\ args' = <<>>
    /\ http' = <<>>
    /\ outcome' = [kind |-> "nothing"]
    /\ user_data' = NoDict
    /\ data' = NoDict
    /\ UNCHANGED Config

TrackUser ==
    /\ Ready
    /\ \E email \in Emails, event \in Events, ud \in UserDatas, now \in Times,
          response \in Responses(USERS_TRACK) :
          LET r == track_user(Self, email, event, ud, now, response) IN
          Finish("track_user", [email |-> email, event |-> event, user_data |-> ud,
                                now |-> now], r.http, r.out)

ExportUsers ==
    /\ Ready
    /\ \E email \in Emails, fields \in {<<>>, FieldsToExport}, external_id \in ExternalIds,
          response \in Responses(USERS_EXPORT_IDS) :
          LET r == export_users(Self, email, fields, external_id, response) IN
          Finish("export_users", [email |-> email, fields_to_export |-> fields,
                                  external_id |-> external_id], r.http, r.out)

DeleteUser ==
    /\ Ready
    /\ \E email \in Emails, response \in Responses(USERS_DELETE) :
          LET r == delete_user(Self, email, response) IN
          Finish("delete_user", [email |-> email], r.http, r.out)

SendCampaign ==
    /\ Ready
    /\ \E email \in Emails, campaign_id \in CampaignIds,
          response \in Responses(CAMPAIGNS_TRIGGER_SEND) :
          LET r == send_campaign(Self, email, campaign_id, response) IN
          Finish("send_campaign", [email |-> email, campaign_id |-> campaign_id],
                 r.http, r.out)

GetUserSubscriptions ==
    /\ Ready
    /\ \E external_id \in ExternalIds, email \in Emails,
          response \in Responses(SUBSCRIPTION_USER_STATUS) :
          LET r == get_user_subscriptions(Self, external_id, email, response) IN
          Finish("get_user_subscriptions", [external_id |-> external_id, email |-> email],
                 r.http, r.out)

SaveUser ==
    /\ Ready
    /\ \E braze_user_data \in Payloads, response \in Responses(USERS_TRACK) :
          LET r == save_user(Self, braze_user_data, response) IN
          Finish("save_user", [braze_user_data |-> braze_user_data], r.http, r.out)

\* Braze.get up to its first vendor call's answer
BrazeGet ==
    /\ Ready
    /\ \E email_id \in ExternalIds, token \in Tokens, email \in Emails, fxa_id \in FxaIds,
          response \in Responses(USERS_EXPORT_IDS) :
          LET s == get_export(Self, email, token, response)
              a == [email_id |-> email_id, token |-> token, email |-> email,
                    fxa_id |-> fxa_id]
          IN  IF s.next = "done" THEN Finish("get", a, s.http, s.out)
              ELSE /\ op' = "get"
                   /\ args' = a
                   /\ http' = s.http
                   /\ outcome' = s.out
                   /\ pc' = "get_subscriptions"
                   /\ user_data' = s.user_data
                   /\ UNCHANGED data
                   /\ UNCHANGED Config

\* Braze.delete up to the first vendor call of its get(email=email)
BrazeDelete ==
    /\ Ready
    /\ \E email \in Emails, response \in Responses(USERS_EXPORT_IDS) :
          LET s == get_export(Self, email, None, response)
              a == [email |-> email]
              d == delete_after_get(s.out)
          IN  IF s.next = "done" /\ d.next = "done" THEN Finish("delete", a, s.http, d.out)
              ELSE /\ op' = "delete"
                   /\ args' = a
                   /\ http' = s.http
                   /\ outcome' = [kind |-> "pending"]
                   /\ pc' = IF s.next = "done" THEN "delete_user" ELSE "get_subscriptions"
                   /\ user_data' = s.user_data
                   /\ data' = IF s.next = "done" THEN d.data ELSE data
                   /\ UNCHANGED Config

\* the second vendor call of get, for get itself or for the get inside delete
BrazeGetSubscriptions ==
    /\ client = "ok"
    /\ pc = "get_subscriptions"
    /\ \E response \in Responses(SUBSCRIPTION_USER_STATUS) :
          LET s == get_subscriptions(Self, user_data, args.email, response)
              d == delete_after_get(s.out)
          IN  IF op = "get" THEN Finish(op, args, http \o s.http, s.out)
              ELSE IF d.next = "done" THEN Finish(op, args, http \o s.http, d.out)
              ELSE /\ http' = http \o s.http
                   /\ pc' = "delete_user"
                   /\ data' = d.data
                   /\ UNCHANGED <<op, args, outcome, user_data>>
                   /\ UNCHANGED Config

\* the vendor delete of Braze.delete and its return
BrazeDeleteUser ==
    /\ client = "ok"
    /\ pc = "delete_user"
    /\ \E response \in Responses(USERS_DELETE) :
          LET s == delete_delete_user(Self, data, args.email, response)
          IN  /\ op' = op
              /\ args' = args
              /\ http' = http \o s.http
              /\ outcome' = s.out
              /\ pc' = "done"
              /\ UNCHANGED <<user_data, data>>
              /\ UNCHANGED Config

BrazeAdd ==
    /\ Ready
    /\ \E d \in NewUsers, now \in Times, response \in Responses(USERS_TRACK) :
          LET r == add(Self, d, now, response) IN
          Finish("add", [data |-> d, now |-> now], r.http, r.out)

BrazeUpdate ==
    /\ Ready
    /\ \E existing_data \in LocalRecords, update_data \in Updates :
          Finish("update", [existing_data |-> existing_data, update_data |-> update_data],
                 <<>>, NotImplemented)

BrazeUpdateByFxaId ==
    /\ Ready
    /\ \E fxa_id \in FxaIds, update_data \in Updates :
          Finish("update_by_fxa_id", [fxa_id |-> fxa_id, update_data |-> update_data],
                 <<>>, NotImplemented)

BrazeUpdateByToken ==
    /\ Ready
    /\ \E token \in Tokens, update_data \in Updates :
          Finish("update_by_token", [token |-> token, update_data |-> update_data],
                 <<>>, NotImplemented)

\* one call of from_vendor
FromVendor ==
    /\ Ready
    /\ args.fn = "from_vendor"
    /\ Finish("from_vendor", args, <<>>,
              IF FromVendorKeyError(args.braze_user_data) THEN Raise("KeyError", NoMessage)
              ELSE Return(from_vendor(args.braze_user_data, args.subscription_groups)))

\* one call of to_vendor
ToVendor ==
    /\ Ready
    /\ args.fn = "to_vendor"
    /\ Finish("to_vendor", args, <<>>,
              to_vendor(args.basket_user_data, args.update_data, args.custom_attributes,
                        args.events, args.now))

\* to_vendor(from_vendor(R, G)): the local record goes in as the existing record
RoundTrip ==
    /\ Ready
    /\ args.fn = "round_trip"
    /\ Finish("round_trip", args, <<>>,
              IF FromVendorKeyError(args.braze_user_data) THEN Raise("KeyError", NoMessage)
              ELSE to_vendor(from_vendor(args.braze_user_data, args.subscription_groups),
                             NoDict, NoDict, <<>>, args.now))

ApiKeys == {"", "key"}

InitWith(urls) ==
    /\ base_url \in urls
    /\ api_key \in ApiKeys
    /\ client = "new"
    /\ api_url = <<>>
    /\ active = FALSE
    /\ pc = "idle"
    /\ op = "none"
    /\ args = <<>>
    /\ http = <<>>
    /\ outcome = [kind |-> "nothing"]
    /\ user_data = NoDict
    /\ data = NoDict

InitCtor == InitWith(SeqsUpTo(UrlChars, MaxUrlLen))
NextCtor == Construct
SpecCtor == InitCtor /\ [][NextCtor]_vars

\* The mapping functions by themselves: one call per behaviour
InitMapping ==
    /\ base_url = <<"h", ":", "/", "/", "h">>
    /\ api_key = "key"
    /\ client = "ok"
    /\ api_url = base_url
    /\ active = TRUE
    /\ pc = "idle"
    /\ op = "none"
    /\ args \in FromVendorCalls \cup ToVendorCalls \cup RoundTripCalls
    /\ http = <<>>
    /\ outcome = [kind |-> "nothing"]
    /\ user_data = NoDict
    /\ data = NoDict
NextMapping ==
    \/ FromVendor
    \/ ToVendor
    \/ RoundTrip
SpecMapping == InitMapping /\ [][NextMapping]_vars

Init == InitWith(SampleUrls)

Next ==
    \/ Construct
    \/ TrackUser
    \/ ExportUsers
    \/ DeleteUser
    \/ SendCampaign
    \/ GetUserSubscriptions
    \/ SaveUser
    \/ BrazeGet
    \/ BrazeGetSubscriptions
    \/ BrazeDelete
    \/ BrazeDeleteUser
    \/ BrazeAdd
    \/ BrazeUpdate
    \/ BrazeUpdateByFxaId
    \/ BrazeUpdateByToken
    \/ CallerResumes

Spec == Init /\ [][Next]_vars

---------------------------------------------------------------------------
(* Properties *)

TransportOps ==
    {"track_user", "export_users", "delete_user", "send_campaign",
     "get_user_subscriptions", "save_user"}
ReservedOps == {"update", "update_by_fxa_id", "update_by_token"}
ClassifiedErrors ==
    {"BrazeBadRequestError", "BrazeUnauthorizedError", "BrazeForbiddenError",
     "BrazeNotFoundError", "BrazeRateLimitError", "BrazeInternalServerError",
     "BrazeClientError"}

Path(exchange) == exchange.request.url.path
LastResponse == http[Len(http)].response
IsErrorStatus(status) == status \in 400..599

\* the export call of the operation in progress was answered, without an HTTP
\* error, by a body holding this list of users
ExportAnswered ==
    /\ http # <<>>
    /\ Path(http[1]) = USERS_EXPORT_IDS
    /\ ~IsErrorStatus(http[1].response.status)
    /\ json(http[1].response.text) # NotJson
    /\ "users" \in DOMAIN json(http[1].response.text)
ExportedUsers == json(http[1].response.text)["users"]
ExportFoundNoUser == ExportAnswered /\ ExportedUsers = <<>>
ExportMatched ==
    ExportAnswered /\ ExportedUsers # <<>> /\ "external_id" \in DOMAIN ExportedUsers[1]

\* the positions of the /users/delete requests among the operation's exchanges
DeleteRequests == {i \in 1..Len(http) : Path(http[i]) = USERS_DELETE}

\* C1: a client constructed with an empty API key is inactive, no operation
\* on it ever issues an HTTP request, and every transport operation returns None.
C1_InactiveIsNoOp ==
    (client = "ok" /\ api_key = "") =>
        /\ active = FALSE
        /\ http = <<>>
        /\ (pc = "done" /\ op \in TransportOps) => outcome = ReturnNone

C1_Witness ==
    /\ client = "ok" /\ api_key = "" /\ pc = "done"
    /\ op = "track_user" /\ args.event = "welcome" /\ args.user_data = [email_id |-> "X1"]
    /\ outcome = ReturnNone

\* The error the taxonomy assigns to an HTTP error status
ExpectedError(status) ==
    CASE status = 400 -> "BrazeBadRequestError"
      [] status = 401 -> "BrazeUnauthorizedError"
      [] status = 403 -> "BrazeForbiddenError"
      [] status = 404 -> "BrazeNotFoundError"
      [] status = 429 -> "BrazeRateLimitError"
      [] status \in 500..599 -> "BrazeInternalServerError"
      [] OTHER -> "BrazeClientError"

\* C2: when the vendor answers an operation of an active client with an HTTP
\* error status, the operation raises the error the taxonomy assigns to that
\* status alone, carrying the response body as its message.
C2_ErrorByStatus ==
    (pc = "done" /\ http # <<>> /\ IsErrorStatus(LastResponse.status)) =>
        outcome = Raise(ExpectedError(LastResponse.status), LastResponse.text)

C2_Witness ==
    /\ pc = "done" /\ op \in TransportOps /\ http # <<>>
    /\ LastResponse.status = 418 /\ LastResponse.text = "<html>"
    /\ outcome = Raise("BrazeClientError", "<html>")

\* C3 as stated: every answer with a status outside 200..299 makes a transport
\* operation of an active client raise a classified error.
C3_NonSuccessRaises ==
    (pc = "done" /\ op \in TransportOps /\ http # <<>>
        /\ LastResponse.status \notin 200..299) =>
        (outcome.kind = "raise" /\ outcome.exc \in ClassifiedErrors)

\* C3, amended: a transport operation of an active client raises a classified
\* error exactly when the answer's status is in 400..599; an answer with any
\* other status (1xx or an unfollowed 3xx as well as 2xx) is parsed as JSON and
\* returned, or fails in the parse with an unclassified error.
C3_ErrorStatusRaises ==
    (pc = "done" /\ op \in TransportOps /\ http # <<>>) =>
        /\ IsErrorStatus(LastResponse.status) <=>
              (outcome.kind = "raise" /\ outcome.exc \in ClassifiedErrors)
        /\ ~IsErrorStatus(LastResponse.status) =>
              \/ outcome = Return(json(LastResponse.text))
              \/ outcome = Raise("JSONDecodeError", NoMessage)

C3_Witness ==
    /\ pc = "done" /\ op = "delete_user" /\ http # <<>>
    /\ LastResponse.status = 599
    /\ outcome.kind = "raise" /\ outcome.exc = "BrazeInternalServerError"

\* C4: when the get inside delete yields no record (the export holds an empty
\* users list), delete raises BrazeUserNotFoundByEmailError and at no point of
\* the call is a /users/delete request issued.
C4_DeleteOfMissingUser ==
    (op = "delete" /\ ExportFoundNoUser) =>
        /\ pc = "done"
        /\ outcome = Raise("BrazeUserNotFoundByEmailError", NoMessage)
        /\ DeleteRequests = {}

C4_Witness ==
    /\ op = "delete" /\ ExportFoundNoUser /\ pc = "done"
    /\ outcome.kind = "raise" /\ Len(http) = 1

\* the subscription groups get reads from the answer of its second request
SubscriptionsOf(response) ==
    LET body == json(response.text)
        users == IF "users" \in DOMAIN body THEN body["users"] ELSE <<<<>>>>
    IN  IF "subscription_groups" \in DOMAIN users[1]
        THEN users[1]["subscription_groups"] ELSE <<>>

C6_GetOfMissingUser ==
    (op = "get" /\ ExportFoundNoUser) =>
        /\ pc = "done"
        /\ outcome = ReturnNone
        /\ Len(http) = 1

C6_Witness ==
    op = "get" /\ ExportFoundNoUser /\ pc = "done" /\ outcome.kind = "none"

\* C7: for a matched user get issues exactly two requests, in this order:
\* POST /users/export/ids with the ten-field allow-list and the email alias,
\* then GET /subscription/user/status with the first exported user's
\* external_id and the requested email; a get that returns returns from_vendor
\* of that user and the groups of the second answer.
C7_GetOfMatchedUser ==
    (op = "get" /\ ExportMatched) =>
        /\ http[1].request.method = "POST"
        /\ http[1].request.data["fields_to_export"] =
              <<"braze_id", "country", "created_at", "custom_attributes", "email",
                "email_subscribe", "external_id", "first_name", "language", "last_name">>
        /\ http[1].request.data["user_aliases"] =
              <<[alias_name |-> args.email, alias_label |-> "email"]>>
        /\ pc \in {"get_subscriptions", "done"}
        /\ pc = "get_subscriptions" => Len(http) = 1
        /\ pc = "done" =>
              /\ Len(http) = 2
              /\ http[2].request.method = "GET"
              /\ Path(http[2]) = SUBSCRIPTION_USER_STATUS
              /\ http[2].request.params =
                    [external_id |-> ExportedUsers[1]["external_id"], email |-> args.email]
              /\ outcome.kind = "value" =>
                    outcome.value =
                        from_vendor(ExportedUsers[1], SubscriptionsOf(http[2].response))

C7_Witness ==
    /\ op = "get" /\ ExportMatched /\ pc = "done" /\ outcome.kind = "value"
    /\ Len(ExportedUsers) = 2
    /\ outcome.value["email_id"] = "X2"
    /\ http[2].request.params["external_id"] = "X2"

\* C8: on an inactive client every transport operation and Braze.get return
\* None rather than raising.
C8_InactiveNeverRaises ==
    (client = "ok" /\ ~active /\ pc = "done" /\ op \in TransportOps \cup {"get"}) =>
        outcome = ReturnNone

\* The URL grammar: a scheme is a letter followed by scheme characters up to
\* the first ":"; a network location is a non-empty text after "//" that
\* follows the scheme, up to the next "/", "?" or "#".
HasSchemeEndingAt(u, i) ==
    /\ i \in 2..Len(u)
    /\ u[i] = ":"
    /\ u[1] \in Letters
    /\ \A j \in 1..(i - 1) : u[j] \in scheme_chars
HasSchemeAndHost(u) ==
    \E i \in 1..Len(u) :
        /\ HasSchemeEndingAt(u, i)
        /\ Len(u) >= i + 3
        /\ u[i + 1] = "/" /\ u[i + 2] = "/"
        /\ u[i + 3] \notin {"/", "?", "#"}

\* C9: whatever the API key, construction succeeds for every base URL that
\* has a scheme and a host (network location) and raises ValueError for every
\* other base URL.
C9_ConstructionByBaseUrl ==
    client # "new" =>
        /\ client \in {"ok", "ValueError"}
        /\ client = "ok" <=> HasSchemeAndHost(base_url)

C9_Witness ==
    /\ client = "ValueError" /\ api_key = "key"
    /\ \E i \in 1..Len(base_url) : HasSchemeEndingAt(base_url, i)

C11_AddTracksUser ==
    (client = "ok" /\ active /\ pc = "done" /\ op = "add") =>
        LET alias == IF LacksEmailId(args.data)
                     THEN [user_alias |-> EmailAlias(args.data.email)] ELSE <<>>
            custom == [_update_existing_only |-> FALSE] @@ alias
            expected == to_vendor(NoDict, args.data, custom, <<>>, args.now)
        IN  /\ Len(http) = 1
            /\ http[1].request.method = "POST"
            /\ Path(http[1]) = USERS_TRACK
            /\ Len(http[1].request.data.attributes) = 1
            /\ http[1].request.data.attributes[1]._update_existing_only = FALSE
            /\ ("user_alias" \in DOMAIN http[1].request.data.attributes[1])
                   <=> LacksEmailId(args.data)
            /\ expected.kind = "value"
            /\ http[1].request.data = expected.value

\* The billable data points of to_vendor, the key under which a local record
\* stores each, and the normalisation to_vendor applies to each
BillableFields == {"country", "language", "first_name", "last_name"}
StoredKey(field) == IF field = "language" THEN "lang" ELSE field
Normalized(field, value) ==
    CASE field = "country" -> process_country(value)
      [] field = "language" -> process_lang(value)
      [] OTHER -> value

ToVendorReturned == pc = "done" /\ op = "to_vendor" /\ outcome.kind = "value"
Existing == OrEmpty(args.basket_user_data)
Effective == OrEmpty(args.update_data) @@ Existing
Attributes == outcome.value.attributes[1]

\* C12: in the payload of to_vendor each of country, language, first_name and
\* last_name is omitted when the existing record stores a value for it and the
\* update leaves that value as it is, and is included, with its normalized
\* value, when its normalized effective value differs from the stored one.
C12_BillableSuppression ==
    ToVendorReturned =>
        \A field \in BillableFields :
            LET stored == DictGet(Existing, StoredKey(field))
                effective == DictGet(Effective, StoredKey(field))
            IN  /\ (stored # None /\ effective = stored) => field \notin DOMAIN Attributes
                /\ Normalized(field, effective) # Normalized(field, stored) =>
                      /\ field \in DOMAIN Attributes
                      /\ Attributes[field] = Normalized(field, effective)

\* the billable fields a payload omits
Omitted(payload) == BillableFields \ DOMAIN payload.attributes[1]

\* C13: to_vendor(existing_record) with no update_record returns a payload,
\* and a second call with the same existing_record returns a payload that
\* omits the same billable fields.
C13_NoUpdateIsIdempotent ==
    (pc = "done" /\ op = "to_vendor" /\ args.update_data = NoDict) =>
        LET again == to_vendor(args.basket_user_data, NoDict, args.custom_attributes,
                               args.events, args.now)
        IN  /\ outcome.kind = "value"
            /\ again.kind = "value"
            /\ Omitted(again.value) = Omitted(outcome.value)

\* every vendor id of the groups has a local slug
AllResolvable(groups) == \A i \in 1..Len(groups) : Truthy(vendor_id_to_slug(groups[i].id))

\* C14: for a vendor record R with email_subscribe opted_in, unsubscribed or
\* subscribed and groups G, each Subscribed or Unsubscribed and each with a
\* local slug, to_vendor(from_vendor(R, G)) returns a payload whose
\* email_subscribe is R's and whose subscription_groups give each group of G
\* its state.
C14_RoundTrip ==
    (/\ pc = "done" /\ op = "round_trip"
     /\ DictGet(args.braze_user_data, "email_subscribe")
            \in {"opted_in", "unsubscribed", "subscribed"}
     /\ AllResolvable(args.subscription_groups)
     /\ \A i \in 1..Len(args.subscription_groups) :
            args.subscription_groups[i].status \in {"Subscribed", "Unsubscribed"}) =>
        /\ outcome.kind = "value"
        /\ Attributes.email_subscribe = args.braze_user_data.email_subscribe
        /\ \A i \in 1..Len(args.subscription_groups) :
              \E j \in 1..Len(Attributes.subscription_groups) :
                  /\ Attributes.subscription_groups[j].subscription_group_id
                        = args.subscription_groups[i].id
                  /\ Attributes.subscription_groups[j].subscription_state
                        = IF args.subscription_groups[i].status = "Subscribed"
                          THEN "subscribed" ELSE "unsubscribed"

\* the export request of a get: the first exchange of the call
ExportBody == http[1].request.data

\* C15: the export request of get is addressed by email and, when an external
\* id is passed through the email_id or through the token parameter, by that
\* id as well: external_ids = [X] for get(email_id=X, email=e) and for
\* get(token=X, email=e).
C15_GetAddressesByExternalId ==
    (client = "ok" /\ active /\ op = "get" /\ http # <<>>) =>
        /\ ExportBody.email_address = args.email
        /\ ExportBody.user_aliases = <<EmailAlias(args.email)>>
        /\ (Truthy(args.email_id) /\ ~Truthy(args.token)) =>
              /\ "external_ids" \in DOMAIN ExportBody
              /\ ExportBody.external_ids = <<args.email_id>>
        /\ (Truthy(args.token) /\ ~Truthy(args.email_id)) =>
              /\ "external_ids" \in DOMAIN ExportBody
              /\ ExportBody.external_ids = <<args.token>>

\* the body of the request a track_user call sent
TrackBody == http[1].request.data

\* C16: a track_user request addresses its single attributes record by
\* external_id, without a user_alias, when user_data carries a non-empty
\* email_id, and otherwise by the email alias with _update_existing_only =
\* false; with an event it carries exactly one event record, addressed in the
\* same mode as the attributes record, and without an event it carries none.
C16_TrackUserAddressing ==
    (client = "ok" /\ active /\ pc = "done" /\ op = "track_user") =>
        LET ud == args.user_data
            by_id == ud # NoDict /\ "email_id" \in DOMAIN ud /\ ud.email_id # ""
            attributes == TrackBody.attributes[1]
        IN  /\ Len(http) = 1
            /\ Len(TrackBody.attributes) = 1
            /\ attributes.email = args.email
            /\ IF by_id
               THEN /\ "user_alias" \notin DOMAIN attributes
                    /\ "external_id" \in DOMAIN attributes
                    /\ attributes.external_id = ud.email_id
               ELSE /\ "external_id" \notin DOMAIN attributes
                    /\ "user_alias" \in DOMAIN attributes
                    /\ attributes.user_alias = [alias_name |-> args.email, alias_label |-> "email"]
                    /\ attributes._update_existing_only = FALSE
            /\ IF args.event = None
               THEN "events" \notin DOMAIN TrackBody
               ELSE /\ Len(TrackBody.events) = 1
                    /\ TrackBody.events[1].name = args.event
                    /\ IF by_id
                       THEN /\ "user_alias" \notin DOMAIN TrackBody.events[1]
                            /\ "external_id" \in DOMAIN TrackBody.events[1]
                            /\ TrackBody.events[1].external_id = ud.email_id
                       ELSE /\ "external_id" \notin DOMAIN TrackBody.events[1]
                            /\ "user_alias" \in DOMAIN TrackBody.events[1]
                            /\ TrackBody.events[1].user_alias
                                  = [alias_name |-> args.email, alias_label |-> "email"]

C16_Witness ==
    /\ active /\ pc = "done" /\ op = "track_user"
    /\ args.user_data = [email_id |-> "X1", basket_token |-> "T1"]
    /\ args.event = "welcome"
    /\ Len(http) = 1
    /\ TrackBody.events[1].external_id = "X1"
    /\ "user_alias" \notin DOMAIN TrackBody.attributes[1]

\* C17: every call of a transport operation on an active client makes exactly
\* one HTTP exchange, whatever the response; when the response is an error
\* (429 and 5xx included) the call has raised with that one exchange made.
C17_OneRequestPerCall ==
    (client = "ok" /\ active /\ pc = "done" /\ op \in TransportOps) =>
        /\ Len(http) = 1
        /\ IsErrorStatus(http[1].response.status) => outcome.kind = "raise"

C17_Witness ==
    /\ active /\ pc = "done" /\ op = "send_campaign"
    /\ Len(http) = 1
    /\ http[1].response.status = 429
    /\ outcome.kind = "raise" /\ outcome.exc = "BrazeRateLimitError"

FromVendorReturned == pc = "done" /\ op = "from_vendor" /\ outcome.kind = "value"

\* C18: the record from_vendor returns never has optin and optout both true:
\* optin is true exactly for a vendor record whose email_subscribe is
\* "opted_in", optout exactly for one whose email_subscribe is "unsubscribed";
\* both are false for "subscribed", any other value and a missing
\* email_subscribe.
C18_OptinOptoutExclusive ==
    FromVendorReturned =>
        LET r == args.braze_user_data
            has(state) == "email_subscribe" \in DOMAIN r /\ r.email_subscribe = state
        IN  /\ ~(outcome.value.optin /\ outcome.value.optout)
            /\ outcome.value.optin <=> has("opted_in")
            /\ outcome.value.optout <=> has("unsubscribed")
            /\ (has("subscribed") \/ has("pending") \/ "email_subscribe" \notin DOMAIN r)
                  => (~outcome.value.optin /\ ~outcome.value.optout)

C18_Witness ==
    /\ FromVendorReturned
    /\ "email_subscribe" \notin DOMAIN args.braze_user_data
    /\ ~outcome.value.optin /\ ~outcome.value.optout

\* C19: the email_subscribe of to_vendor's payload follows the effective
\* record, in which a key of the update wins over the existing record's:
\* "opted_in" when optin is true, even with optout true as well, else
\* "unsubscribed" when optout is true, else "subscribed".
C19_EmailSubscribePrecedence ==
    ToVendorReturned =>
        LET update == OrEmpty(args.update_data)
            flag(key) == IF key \in DOMAIN update THEN update[key]
                         ELSE key \in DOMAIN Existing /\ Existing[key]
        IN  Attributes.email_subscribe =
                IF flag("optin") THEN "opted_in"
                ELSE IF flag("optout") THEN "unsubscribed"
                ELSE "subscribed"

C19_Witness ==
    /\ ToVendorReturned
    /\ args.basket_user_data = BasketUser
    /\ BasketUser.optin /\ ~BasketUser.optout
    /\ args.update_data = [optin |-> FALSE]
    /\ Attributes.email_subscribe = "subscribed"

RECURSIVE SubscribedSlugs(_)
\* the slugs, in order, of the groups that are Subscribed and have a slug
SubscribedSlugs(groups) ==
    IF groups = <<>> THEN <<>>
    ELSE (IF Head(groups).status = "Subscribed" /\ vendor_id_to_slug(Head(groups).id) # None
          THEN <<vendor_id_to_slug(Head(groups).id)>> ELSE <<>>)
         \o SubscribedSlugs(Tail(groups))

\* C20: the newsletters of the record from_vendor returns are the slugs of the
\* groups whose status is "Subscribed" and whose id has a local slug, in the
\* groups' order; every other group is dropped and raises nothing.
C20_NewslettersOfSubscribedGroups ==
    (pc = "done" /\ op = "from_vendor") =>
        /\ outcome.kind = "value"
        /\ outcome.value.newsletters.type = "list"
        /\ outcome.value.newsletters.items = SubscribedSlugs(args.subscription_groups)

C20_Witness ==
    /\ FromVendorReturned
    /\ args.subscription_groups = GroupsUnmapped
    /\ outcome.value.newsletters.items = <<"bar-news", "foo-news">>

RECURSIVE GroupsOfMapping(_, _)
\* one entry, in order, for each slug whose vendor id is a valid UUID
GroupsOfMapping(slugs, states) ==
    IF slugs = <<>> THEN <<>>
    ELSE (IF is_valid_uuid(slug_to_vendor_id(Head(slugs)))
          THEN <<[subscription_group_id |-> slug_to_vendor_id(Head(slugs)),
                  subscription_state |-> IF Head(states) THEN "subscribed"
                                         ELSE "unsubscribed"]>>
          ELSE <<>>)
         \o GroupsOfMapping(Tail(slugs), Tail(states))

\* C21: when the update record's newsletters are a slug-to-boolean mapping,
\* subscription_groups holds, in the mapping's order, one entry for each slug
\* that resolves to a valid vendor UUID, "subscribed" for true and
\* "unsubscribed" for false, and no entry for any other slug; when the update
\* record has no newsletters or gives them as a list, subscription_groups is
\* empty, whatever newsletters the existing record holds.
C21_SubscriptionGroupsOfUpdate ==
    ToVendorReturned =>
        LET update == OrEmpty(args.update_data) IN
        Attributes.subscription_groups =
            IF "newsletters" \in DOMAIN update /\ update.newsletters.type = "dict"
            THEN GroupsOfMapping(update.newsletters.keys, update.newsletters.values)
            ELSE <<>>

C21_Witness ==
    /\ ToVendorReturned
    /\ args.basket_user_data = BasketUser
    /\ "newsletters" \in DOMAIN args.update_data
    /\ args.update_data.newsletters
          = PyDict(<<"legacy-news", "nope-news", "foo-news">>, <<TRUE, TRUE, TRUE>>)
    /\ Attributes.subscription_groups
          = <<[subscription_group_id |-> GroupFoo, subscription_state |-> "subscribed"]>>

\* the versioned sub-object of a vendor record's custom attributes, {} when
\* the record has none
UserAttributesV1(r) ==
    IF "custom_attributes" \in DOMAIN r
       /\ "user_attributes_v1" \in DOMAIN r.custom_attributes
    THEN r.custom_attributes.user_attributes_v1[1]
    ELSE <<>>

\* C22: the lang of the record from_vendor returns is the vendor record's
\* top-level language when it has one, else the nested email_lang when that
\* holds a value, else "en" (also when the email_lang key is there without a
\* value), so lang is never absent.
C22_LangFallback ==
    FromVendorReturned =>
        LET language == DictGet(args.braze_user_data, "language")
            email_lang == DictGet(UserAttributesV1(args.braze_user_data), "email_lang")
        IN  /\ outcome.value.lang # None
            /\ outcome.value.lang =
                  IF Truthy(language) THEN language
                  ELSE IF email_lang # None THEN email_lang
                  ELSE "en"

\* C23: in to_vendor's payload created_at.$time is the effective record's
\* created_date when that holds a value and the time of the call otherwise
\* (also when the created_date key is there without a value); updated_at.$time
\* and update_timestamp are the time of the call.
C23_CreatedAt ==
    ToVendorReturned =>
        LET created_date == DictGet(Effective, "created_date")
            v1 == Attributes.user_attributes_v1[1]
        IN  /\ v1.created_at["$time"] =
                  IF created_date # None THEN created_date ELSE args.now
            /\ v1.updated_at["$time"] = args.now
            /\ Attributes.update_timestamp = args.now

=============================================================================
